---- MODULE Spec2Model ----
(***************************************************************************)
(* Sprite animation engine of mcmattyobriore/demo.                         *)
(*                                                                         *)
(* The repository holds five near-duplicate scripts:                       *)
(*   "funkin_a"  src/late-registration/funkin.js lines   1-262             *)
(*   "funkin_b"  src/late-registration/funkin.js lines 264-480             *)
(*   "part_000"  src/unnamed/part_000                                      *)
(*   "part_001"  src/unnamed/part_001                                      *)
(*   "part_002"  src/unnamed/part_002                                      *)
(* parseSparrow, the Sprite constructor, setAnim, update and draw are      *)
(* modelled per script (the parameter v).                                  *)
(*                                                                         *)
(* Conventions                                                             *)
(*  - a JS string is a sequence of one-character strings;                  *)
(*  - a JS number that is drawn with is an exact rational <<n, d>>, d > 0, *)
(*    in lowest terms; <<0, 0>> is NaN (floating-point rounding and the    *)
(*    sign of zero are not modelled);                                      *)
(*  - time is counted in ticks, TicksPerFrame ticks to one frame period    *)
(*    1/fps, so 1 second is fps * TicksPerFrame ticks;                     *)
(*  - a JS object used as a map (the clip table) is the sequence of its    *)
(*    [name, frames] entries in key insertion order: no clip name of the   *)
(*    inputs is an array index or a property of Object.prototype, and no   *)
(*    name holds a line terminator (which . of the regex would not match). *)
(***************************************************************************)
EXTENDS Integers, Sequences, FiniteSets, TLC

VARIABLES
    variant,      \* ParseSpec, SpriteSpec: which script's Sprite / parseSparrow is exercised
    xml,          \* ParseSpec, SpriteSpec: the descriptor handed to parseSparrow
    table,        \* ParseSpec: what parseSparrow returned
    cfg,          \* SpriteSpec: the entity's x, y and scale in the scene configuration
    sprite,       \* SpriteSpec: the Sprite object
    pc,           \* ParseSpec: "loaded" -> "parsed" or "thrown"; SpriteSpec:
                  \*            "loaded" -> "live"
    last,         \* SpriteSpec: the last call made on the sprite, its argument,
                  \*             the sprite before it and what it handed to drawImage
    scaleX,       \* let scaleX
    scaleY,       \* let scaleY
    ctx,          \* the 2D context: globalAlpha and the stack of ctx.save()
    canvas,       \* <<canvas.width, canvas.height>>
    keys,         \* Spec: the keys e.key with keys[e.key] = true
    demo,         \* Spec: the entities of the scene configuration, in for-in order
    loading,      \* Spec: where async init() is: the entity being loaded and the
                  \*       await it is suspended at
    gameObjects,  \* Spec: let gameObjects
    lastTime,     \* Spec: let lastTime, in ticks
    rafPending,   \* Spec: frame callbacks requested and not yet run
    tickLog       \* Spec: what the last loop() did, in order: per entity its
                  \*       effect, update and draw, with the drawImage arguments

spriteVars == <<variant, xml, table, cfg, sprite, pc, last>>
sceneVars == <<canvas, keys, demo, loading, gameObjects, lastTime, rafPending, tickLog>>
vars == <<spriteVars, scaleX, scaleY, ctx, sceneVars>>

-----------------------------------------------------------------------------
(* Bounds of the model *)

MaxEntries == 3          \* SubTexture entries in a descriptor
TicksPerFrame == 2       \* resolution of time: ticks in one frame period 1/fps
MaxEntities == 3         \* entities in the scene configuration
MaxTime == 4             \* the last timestamp, in ticks, a frame callback is run with

(* Program constants *)

DESIGN_WIDTH == 1280
DESIGN_HEIGHT == 720
DefaultFps == 12

-----------------------------------------------------------------------------
(* JS numbers as exact rationals *)

RECURSIVE GCD(_, _)
GCD(a, b) == IF b = 0 THEN a ELSE GCD(b, a % b)

Abs(n) == IF n < 0 THEN -n ELSE n

NaN == <<0, 0>>

IsNaN(q) == q[2] = 0

Rat(n, d) ==
    IF d = 0 THEN NaN
    ELSE LET g == GCD(Abs(n), Abs(d))
             s == IF d < 0 THEN -1 ELSE 1
         IN  <<(s * n) \div g, (s * d) \div g>>

Num(n) == <<n, 1>>

RAdd(p, q) == IF IsNaN(p) \/ IsNaN(q) THEN NaN
              ELSE Rat(p[1] * q[2] + q[1] * p[2], p[2] * q[2])

RMul(p, q) == IF IsNaN(p) \/ IsNaN(q) THEN NaN
              ELSE Rat(p[1] * q[1], p[2] * q[2])

RNeg(p) == IF IsNaN(p) THEN NaN ELSE <<-p[1], p[2]>>

\* JS truthiness of a number: 0 and NaN are falsy
Truthy(q) == ~IsNaN(q) /\ q[1] # 0

\* a || b on numbers
OrElse(a, b) == IF Truthy(a) THEN a ELSE b

-----------------------------------------------------------------------------
(* JS strings as sequences of characters *)

Digits == {"0", "1", "2", "3", "4", "5", "6", "7", "8", "9"}

IsDigit(c) == c \in Digits

DigitVal(c) ==
    CASE c = "0" -> 0 [] c = "1" -> 1 [] c = "2" -> 2 [] c = "3" -> 3
      [] c = "4" -> 4 [] c = "5" -> 5 [] c = "6" -> 6 [] c = "7" -> 7
      [] c = "8" -> 8 [] c = "9" -> 9

\* length of the maximal run of decimal digits at the end of s: what \d+$ matches
RECURSIVE TrailingDigits(_)
TrailingDigits(s) ==
    IF s = <<>> \/ ~IsDigit(s[Len(s)]) THEN 0
    ELSE 1 + TrailingDigits(SubSeq(s, 1, Len(s) - 1))

\* Number("010") = 10: the decimal value of a string of digits
RECURSIVE ToNumber(_)
ToNumber(ds) ==
    IF ds = <<>> THEN 0
    ELSE 10 * ToNumber(SubSeq(ds, 1, Len(ds) - 1)) + DigitVal(ds[Len(ds)])

\* String.prototype.trim, for the only whitespace of the alphabet, " "
RECURSIVE Trim(_)
Trim(s) ==
    IF s = <<>> THEN s
    ELSE IF s[1] = " " THEN Trim(Tail(s))
    ELSE IF s[Len(s)] = " " THEN Trim(SubSeq(s, 1, Len(s) - 1))
    ELSE s

\* s.replace(/[0-9]/g, "")
RECURSIVE RemoveDigits(_)
RemoveDigits(s) ==
    IF s = <<>> THEN s
    ELSE IF IsDigit(s[1]) THEN RemoveDigits(Tail(s))
    ELSE <<s[1]>> \o RemoveDigits(Tail(s))

\* s.replace(/\d+$/, "")
StripTrailingDigits(s) == SubSeq(s, 1, Len(s) - TrailingDigits(s))

\* parts = s.split(" "); if (parts.length > 1) parts.shift(); parts.join(" ")
\* : everything after the first " ", or s itself when it holds none
DropFirstToken(s) ==
    IF \E i \in 1..Len(s) : s[i] = " "
    THEN LET i == CHOOSE k \in 1..Len(s) :
                      s[k] = " " /\ \A j \in 1..(k - 1) : s[j] # " "
         IN  SubSeq(s, i + 1, Len(s))
    ELSE s

-----------------------------------------------------------------------------
(* The five scripts *)

FunkinA == "funkin_a"
FunkinB == "funkin_b"
Part000 == "part_000"
Part001 == "part_001"
Part002 == "part_002"

Variants == {FunkinA, FunkinB, Part000, Part001, Part002}

-----------------------------------------------------------------------------
(* The atlas descriptor: the SubTexture elements of the XML document *)

\* what sub.getAttribute(a) returns: null (absent), a numeric string, other text
AbsentAttr == [kind |-> "absent", num |-> NaN]
NumAttr(n) == [kind |-> "num", num |-> Num(n)]
TextAttr == [kind |-> "text", num |-> NaN]

\* unary plus on an attribute: +null = 0, +"12" = 12, +"abc" = NaN
AttrNumber(a) ==
    CASE a.kind = "absent" -> Num(0)
      [] a.kind = "num" -> a.num
      [] a.kind = "text" -> NaN

\* -(+sub.getAttribute("frameX") || 0)
NegatedOffset(a) == RNeg(OrElse(AttrNumber(a), Num(0)))

\* ox: 0 // ignore offsets for now
IgnoredOffset(a) == Num(0)

\* the frame rectangle pushed for one SubTexture
FrameOf(v, sub) ==
    [x |-> AttrNumber(sub.x),
     y |-> AttrNumber(sub.y),
     w |-> AttrNumber(sub.width),
     h |-> AttrNumber(sub.height),
     ox |-> IF v = Part001 THEN IgnoredOffset(sub.frameX) ELSE NegatedOffset(sub.frameX),
     oy |-> IF v = Part001 THEN IgnoredOffset(sub.frameY) ELSE NegatedOffset(sub.frameY)]

-----------------------------------------------------------------------------
(* The clip table: const frames = {} *)

HasClip(t, name) == \E i \in 1..Len(t) : t[i].name = name

ClipAt(t, name) == CHOOSE i \in 1..Len(t) : t[i].name = name

\* frames[name], for a name that is a key
Clip(t, name) == t[ClipAt(t, name)].frames

\* Object.keys(frames)
Keys(t) == [i \in 1..Len(t) |-> t[i].name]

\* if (!frames[anim]) frames[anim] = []; frames[anim].push(f)
PushFrame(t, name, f) ==
    IF HasClip(t, name)
    THEN [t EXCEPT ![ClipAt(t, name)].frames = Append(@, f)]
    ELSE Append(t, [name |-> name, frames |-> <<f>>])

-----------------------------------------------------------------------------
(* parseSparrow *)

\* const match = name.match(/^(.*?)(\d+)$/): the name ends in a decimal digit
Matches(name) == TrailingDigits(name) > 0

\* match[1]: the lazy group leaves every trailing digit to (\d+)
MatchAnim(name) == SubSeq(name, 1, Len(name) - TrailingDigits(name))

\* Number(match[2])
MatchIndex(name) ==
    ToNumber(SubSeq(name, Len(name) - TrailingDigits(name) + 1, Len(name)))

\* the clip name each script derives from a SubTexture's name
AnimName(v, name) ==
    CASE v = FunkinA -> MatchAnim(name)
      [] v \in {FunkinB, Part000} -> Trim(DropFirstToken(StripTrailingDigits(name)))
      [] v \in {Part001, Part002} -> Trim(RemoveDigits(name))

\* sub.getAttribute("name") of a SubTexture without a name attribute: null
Null == <<"(null)">>

\* name.match(...) in funkin_a, name.replace(...) in the other scripts, on a
\* null name: a TypeError leaves parseSparrow before anything is returned
Throws(v, subs) == \E i \in 1..Len(subs) : subs[i].name = Null

\* if (!match) continue;  (funkin_a only: the other scripts keep every entry)
Skipped(v, name) == v = FunkinA /\ ~Matches(name)

\* the for-of loop over subs; in funkin_a each pushed frame carries its index
RECURSIVE Collect(_, _, _)
Collect(v, subs, t) ==
    IF subs = <<>> THEN t
    ELSE LET sub == Head(subs)
         IN  IF Skipped(v, sub.name) THEN Collect(v, Tail(subs), t)
             ELSE Collect(v, Tail(subs),
                          PushFrame(t, AnimName(v, sub.name),
                                    [index |-> IF v = FunkinA THEN MatchIndex(sub.name) ELSE 0,
                                     rect |-> FrameOf(v, sub)]))

\* Array.prototype.sort is stable: f goes after every element that does not
\* compare greater, i.e. before the first element with a larger index
RECURSIVE InsertByIndex(_, _)
InsertByIndex(f, sorted) ==
    IF sorted = <<>> THEN <<f>>
    ELSE IF Head(sorted).index > f.index THEN <<f>> \o sorted
    ELSE <<Head(sorted)>> \o InsertByIndex(f, Tail(sorted))

\* frames[anim].sort((a, b) => a.index - b.index)
RECURSIVE SortByIndex(_)
SortByIndex(fs) ==
    IF fs = <<>> THEN <<>>
    ELSE InsertByIndex(fs[Len(fs)], SortByIndex(SubSeq(fs, 1, Len(fs) - 1)))

\* the scripts without the sort leave each clip in encounter order
EncounterOrder(fs) == fs

\* the second loop of funkin_a (sort, then delete f.index); the other scripts
\* return the table as collected
Ordered(v, fs) == IF v = FunkinA THEN SortByIndex(fs) ELSE EncounterOrder(fs)

parseSparrow(v, subs) ==
    LET t == Collect(v, subs, <<>>)
    IN  [i \in 1..Len(t) |->
            [name |-> t[i].name,
             frames |-> LET fs == Ordered(v, t[i].frames)
                        IN  [k \in 1..Len(fs) |-> fs[k].rect]]]

-----------------------------------------------------------------------------
(* class Sprite *)

Idle == <<"i", "d", "l", "e">>
SingUP == <<"s", "i", "n", "g", "U", "P">>

\* the value undefined of this.anim; frames[undefined] is no clip of the
\* tables modelled (no clip is named "undefined")
Undefined == <<"(undefined)">>

\* ticks in 1 / this.fps
FramePeriod(fps) == (DefaultFps * TicksPerFrame) \div fps

\* the initial this.anim
\*   funkin_a, funkin_b, part_000: frames.idle ? "idle" : Object.keys(frames)[0]
\*   part_001: Object.keys(frames)[0] || "idle"      part_002: "idle"
InitialAnim(v, t) ==
    CASE v \in {FunkinA, FunkinB, Part000} ->
            IF HasClip(t, Idle) THEN Idle
            ELSE IF Len(t) > 0 THEN Keys(t)[1] ELSE Undefined
      [] v = Part001 ->
            IF Len(t) > 0 /\ Keys(t)[1] # <<>> THEN Keys(t)[1] ELSE Idle
      [] v = Part002 -> Idle

\* an opacity base + amp * Math.sin(phase), phase in units of 1/(2 * ticks per
\* second) radians; the sine is kept symbolic
Level(base, amp, phase) == [base |-> base, amp |-> amp, phase |-> phase]

\* this.opacity = 1, and the context's initial globalAlpha
Opaque == Level(Num(1), Num(0), 0)

\* constructor(image, frames, x, y, scale = 1)
NewSprite(v, t, x, y, scale) ==
    [frames |-> t,
     anchorX |-> x,
     anchorY |-> y,
     scale |-> scale,
     opacity |-> Opaque,
     fps |-> DefaultFps,
     anim |-> InitialAnim(v, t),
     frameIndex |-> 0,
     frameTimer |-> 0]

\* a setAnim that forgets to look the name up in the table
ShouldSwitchUnchecked(s, name) == s.anim # name

\* a setAnim that restarts the clip it is already playing
ShouldSwitchAlways(s, name) == HasClip(s.frames, name)

\* this.frames[name] && this.anim !== name
ShouldSwitch(s, name) == HasClip(s.frames, name) /\ s.anim # name

\* a switch that keeps the position in the old clip
SwitchedKeepingPosition(s, name) == [s EXCEPT !.anim = name]

\* a switch that moves the anchor by the new clip's first pivot offset
SwitchedReanchored(s, name) ==
    [s EXCEPT !.anim = name, !.frameIndex = 0, !.frameTimer = 0,
              !.anchorX = RAdd(@, Clip(s.frames, name)[1].ox),
              !.anchorY = RAdd(@, Clip(s.frames, name)[1].oy)]

\* this.anim = name; this.frameIndex = 0; this.frameTimer = 0
Switched(s, name) == [s EXCEPT !.anim = name, !.frameIndex = 0, !.frameTimer = 0]

\* setAnim(name)
setAnim(v, s, name) == IF ShouldSwitch(s, name) THEN Switched(s, name) ELSE s

\* the test that advances a frame: >= in funkin_a, funkin_b and part_000,
\* > in part_001 and part_002
FrameDue(v, timer, fps) ==
    IF v \in {Part001, Part002}
    THEN timer > FramePeriod(fps)
    ELSE timer >= FramePeriod(fps)

\* an advance that runs off the end of the clip
NextFrameNoWrap(i, len) == i + 1

\* (this.frameIndex + 1) % animFrames.length
NextFrame(i, len) == (i + 1) % len

\* update(dt)
update(v, s, dt) ==
    IF ~HasClip(s.frames, s.anim) THEN s
    ELSE IF v = Part001 /\ Len(Clip(s.frames, s.anim)) = 0 THEN s
    ELSE LET timer == s.frameTimer + dt
         IN  IF FrameDue(v, timer, s.fps)
             THEN [s EXCEPT !.frameTimer = 0,
                            !.frameIndex = NextFrame(s.frameIndex, Len(Clip(s.frames, s.anim)))]
             ELSE [s EXCEPT !.frameTimer = timer]

\* the arguments of ctx.drawImage and the ctx.globalAlpha it is called under
NoBlit == [sx |-> NaN, sy |-> NaN, sw |-> NaN, sh |-> NaN,
           dx |-> NaN, dy |-> NaN, dw |-> NaN, dh |-> NaN, alpha |-> Opaque]

\* the 2D context of a fresh canvas
NewContext == [globalAlpha |-> Opaque, stack |-> <<>>]

\* ctx.save()
Save(c) == [c EXCEPT !.stack = Append(@, c.globalAlpha)]

\* ctx.restore(): nothing happens on an empty stack
Restore(c) ==
    IF c.stack = <<>> THEN c
    ELSE [globalAlpha |-> c.stack[Len(c.stack)],
          stack |-> SubSeq(c.stack, 1, Len(c.stack) - 1)]

\* drawX / drawY on one axis
\*   funkin_a: anchor * viewScale + o * scale * viewScale
\*   funkin_b, part_000: (base + o) * viewScale
\*   part_001: x                   part_002: x + o * scale
DrawPos(v, anchor, o, scale, viewScale) ==
    CASE v = FunkinA -> RAdd(RMul(anchor, viewScale), RMul(RMul(o, scale), viewScale))
      [] v \in {FunkinB, Part000} -> RMul(RAdd(anchor, o), viewScale)
      [] v = Part001 -> anchor
      [] v = Part002 -> RAdd(anchor, RMul(o, scale))

\* the drawn size on one axis: f.w * this.scale * scaleX, without the
\* viewport scale in part_001 and part_002
DrawSize(v, size, scale, viewScale) ==
    IF v \in {Part001, Part002}
    THEN RMul(size, scale)
    ELSE RMul(RMul(size, scale), viewScale)

\* the context drawImage is called on: funkin_a sets ctx.globalAlpha =
\* this.opacity after ctx.save(); the other scripts leave the context alone
Prepared(v, s, c) ==
    IF v = FunkinA THEN [Save(c) EXCEPT !.globalAlpha = s.opacity] ELSE c

\* a draw() that returns without ctx.restore()
FinishedWithoutRestore(v, c) == c

\* the context draw() leaves: ctx.restore() in funkin_a
Finished(v, c) == IF v = FunkinA THEN Restore(c) ELSE c

\* draw(): "thrown" is the TypeError of frames[anim][frameIndex] on a
\* missing clip in the scripts that index without ?.
draw(v, s, vsx, vsy, c) ==
    IF ~HasClip(s.frames, s.anim)
    THEN [status |-> IF v \in {FunkinA, FunkinB} THEN "skipped" ELSE "thrown",
          blit |-> NoBlit, ctx |-> c]
    ELSE IF s.frameIndex \notin 0..(Len(Clip(s.frames, s.anim)) - 1)
    THEN [status |-> "skipped", blit |-> NoBlit, ctx |-> c]
    ELSE LET f == Clip(s.frames, s.anim)[s.frameIndex + 1]
             during == Prepared(v, s, c)
         IN  [status |-> "drawn",
              blit |-> [sx |-> f.x, sy |-> f.y, sw |-> f.w, sh |-> f.h,
                        dx |-> DrawPos(v, s.anchorX, f.ox, s.scale, vsx),
                        dy |-> DrawPos(v, s.anchorY, f.oy, s.scale, vsy),
                        dw |-> DrawSize(v, f.w, s.scale, vsx),
                        dh |-> DrawSize(v, f.h, s.scale, vsy),
                        alpha |-> during.globalAlpha],
              ctx |-> Finished(v, during)]

-----------------------------------------------------------------------------
(* resizeCanvas: scaleX = canvas.width / DESIGN_WIDTH, and so for Y *)

ScaleFor(physical, design) == Rat(physical, design)

\* a handler that computes the scale from the canvas before it resizes it
resizeCanvasStale(size) ==
    [canvas |-> size,
     scaleX |-> ScaleFor(canvas[1], DESIGN_WIDTH),
     scaleY |-> ScaleFor(canvas[2], DESIGN_HEIGHT),
     ctx |-> NewContext]

\* resizeCanvas() with <<window.innerWidth, window.innerHeight>> = size;
\* setting canvas.width resets the context to its default state
resizeCanvas(size) ==
    [canvas |-> size,
     scaleX |-> ScaleFor(size[1], DESIGN_WIDTH),
     scaleY |-> ScaleFor(size[2], DESIGN_HEIGHT),
     ctx |-> NewContext]

-----------------------------------------------------------------------------
(* Inputs *)

Chars(name, digits) == name \o digits

\* SubTexture elements: the x attribute tells them apart
SubTexture(name, x, fx, fy) ==
    [name |-> name, x |-> NumAttr(x), y |-> NumAttr(0),
     width |-> NumAttr(10), height |-> NumAttr(20), frameX |-> fx, frameY |-> fy]

SubTextures ==
    { SubTexture(Chars(Idle, <<"0">>), 0, AbsentAttr, AbsentAttr),
      SubTexture(Chars(Idle, <<"2">>), 10, NumAttr(3), NumAttr(1)),
      SubTexture(Chars(Idle, <<"1", "0">>), 20, NumAttr(-2), AbsentAttr),
      SubTexture(Chars(SingUP, <<"1">>), 30, NumAttr(4), NumAttr(-1)),
      SubTexture(Chars(<<"B", " ">> \o Idle, <<"1">>), 40, AbsentAttr, NumAttr(2)),
      SubTexture(Idle, 50, NumAttr(1), AbsentAttr),
      \* width="abc"
      [SubTexture(Chars(Idle, <<"3">>), 60, AbsentAttr, AbsentAttr)
          EXCEPT !.width = TextAttr],
      \* no height attribute
      [SubTexture(Chars(SingUP, <<"2">>), 70, AbsentAttr, AbsentAttr)
          EXCEPT !.height = AbsentAttr],
      \* no name attribute
      SubTexture(Null, 80, AbsentAttr, AbsentAttr) }

Descriptors == UNION { [1..n -> SubTextures] : n \in 0..MaxEntries }

\* the descriptors the sprites of SpriteSpec are built from
SpriteSubTextures ==
    { sub \in SubTextures :
        sub.name \in {Chars(Idle, <<"2">>), Chars(Idle, <<"1", "0">>), Chars(SingUP, <<"1">>)} }

SpriteDescriptors == UNION { [1..n -> SpriteSubTextures] : n \in 0..MaxEntries }

SingLEFT == <<"s", "i", "n", "g", "L", "E", "F", "T">>

\* the names setAnim is called with (updateControls), SingLEFT in no table
AnimNames == {Idle, SingUP, SingLEFT}

QuarterSecond == (DefaultFps * TicksPerFrame) \div 4

\* elapsed times handed to update, in ticks
Dts == {0, 1, TicksPerFrame, TicksPerFrame + 1, 2 * TicksPerFrame, QuarterSecond}

\* window.innerWidth, window.innerHeight
WindowSizes == {<<1280, 720>>, <<640, 1080>>}

\* x, y and scale of an entity in the scene configuration
Configs == {[x |-> Num(100), y |-> Num(50), scale |-> sc] : sc \in {Num(1), Num(2)}}

\* the scripts with a viewport transform
Scaled(v) == v \in {FunkinA, FunkinB, Part000}

-----------------------------------------------------------------------------
(* What the specifications record of a call on the sprite *)

NoSprite == NewSprite(FunkinA, <<>>, Num(0), Num(0), Num(1))

Skip == [status |-> "none", blit |-> NoBlit]

AnimState(s) == [anim |-> s.anim, frameIndex |-> s.frameIndex, frameTimer |-> s.frameTimer]

Call(op, name, dt, pre, out) ==
    [op |-> op, name |-> name, dt |-> dt, pre |-> AnimState(pre), out |-> out]

\* the scene variables where no scene runs
SceneIdle ==
    /\ ctx = NewContext
    /\ keys = {}
    /\ demo = <<>>
    /\ loading = [idx |-> 0, phase |-> "none"]
    /\ gameObjects = <<>>
    /\ lastTime = 0
    /\ rafPending = 0
    /\ tickLog = <<>>

-----------------------------------------------------------------------------
(* ParseSpec: one script's parseSparrow applied to a descriptor *)

ParseInit ==
    /\ variant \in Variants
    /\ xml \in Descriptors
    /\ table = <<>>
    /\ pc = "loaded"
    /\ cfg = [x |-> Num(0), y |-> Num(0), scale |-> Num(1)]
    /\ sprite = NoSprite
    /\ last = Call("none", <<>>, 0, NoSprite, Skip)
    /\ scaleX = Num(1)
    /\ scaleY = Num(1)
    /\ canvas = <<DESIGN_WIDTH, DESIGN_HEIGHT>>
    /\ SceneIdle

\* frames = parseSparrow(await loadXML(obj.xml))
PParse ==
    /\ pc = "loaded"
    /\ IF Throws(variant, xml)
       THEN /\ pc' = "thrown"
            /\ UNCHANGED table
       ELSE /\ pc' = "parsed"
            /\ table' = parseSparrow(variant, xml)
    /\ UNCHANGED <<variant, xml, cfg, sprite, last, scaleX, scaleY, ctx, sceneVars>>

ParseNext == PParse

ParseSpec == ParseInit /\ [][ParseNext]_vars

-----------------------------------------------------------------------------
(* SpriteSpec: one script's parseSparrow and Sprite, driven by every call *)

SpriteInit ==
    /\ variant \in Variants
    /\ xml \in SpriteDescriptors
    /\ table = <<>>
    /\ cfg \in Configs
    /\ sprite = NoSprite
    /\ pc = "loaded"
    /\ last = Call("none", <<>>, 0, NoSprite, Skip)
    \* resizeCanvas() at the start of the script; part_001 and part_002 set
    \* canvas.width = 1280, canvas.height = 720 and have no viewport scale
    /\ \E size \in WindowSizes :
          /\ canvas = IF Scaled(variant) THEN size ELSE <<DESIGN_WIDTH, DESIGN_HEIGHT>>
          /\ scaleX = IF Scaled(variant) THEN resizeCanvas(size).scaleX ELSE Num(1)
          /\ scaleY = IF Scaled(variant) THEN resizeCanvas(size).scaleY ELSE Num(1)
    /\ SceneIdle

\* new Sprite(image, parseSparrow(await loadXML(obj.xml)), x, y, scale)
SConstruct ==
    /\ pc = "loaded"
    /\ sprite' = NewSprite(variant, parseSparrow(variant, xml), cfg.x, cfg.y, cfg.scale)
    /\ pc' = "live"
    /\ last' = Call("new", <<>>, 0, NoSprite, Skip)
    /\ UNCHANGED <<variant, xml, table, cfg, scaleX, scaleY, ctx, sceneVars>>

SSetAnim ==
    /\ pc = "live"
    /\ \E name \in AnimNames :
          /\ sprite' = setAnim(variant, sprite, name)
          /\ last' = Call("setAnim", name, 0, sprite, Skip)
    /\ UNCHANGED <<variant, xml, table, cfg, pc, scaleX, scaleY, ctx, sceneVars>>

SUpdate ==
    /\ pc = "live"
    /\ \E dt \in Dts :
          /\ sprite' = update(variant, sprite, dt)
          /\ last' = Call("update", <<>>, dt, sprite, Skip)
    /\ UNCHANGED <<variant, xml, table, cfg, pc, scaleX, scaleY, ctx, sceneVars>>

SDraw ==
    /\ pc = "live"
    /\ LET d == draw(variant, sprite, scaleX, scaleY, ctx)
       IN  /\ last' = Call("draw", <<>>, 0, sprite, [status |-> d.status, blit |-> d.blit])
           /\ ctx' = d.ctx
    /\ UNCHANGED <<variant, xml, table, cfg, sprite, pc, scaleX, scaleY, sceneVars>>

\* last.out tells whether the window has the size of the resize handled
\* before, and then carries on what the draw before it handed to drawImage
SResize ==
    /\ Scaled(variant)
    /\ \E size \in WindowSizes :
          /\ canvas' = resizeCanvas(size).canvas
          /\ scaleX' = resizeCanvas(size).scaleX
          /\ scaleY' = resizeCanvas(size).scaleY
          /\ ctx' = resizeCanvas(size).ctx
          /\ last' = Call("resize", <<>>, 0, sprite,
                          IF size = canvas
                          THEN [status |-> "same",
                                blit |-> IF last.op \in {"draw", "resize"}
                                         THEN last.out.blit ELSE NoBlit]
                          ELSE [status |-> "changed", blit |-> NoBlit])
    /\ UNCHANGED <<variant, xml, table, cfg, sprite, pc, keys, demo, loading,
                   gameObjects, lastTime, rafPending, tickLog>>

SpriteNext == SConstruct \/ SSetAnim \/ SUpdate \/ SDraw \/ SResize

SpriteSpec == SpriteInit /\ [][SpriteNext]_vars

-----------------------------------------------------------------------------
(* The scene of funkin_a: configuration, registration, controls, effects *)

\* the SubTexture of SubTextures with the given name attribute
Sub(name) == CHOOSE sub \in SubTextures : sub.name = name

\* the SubTexture elements of the documents fetch(src) may answer with:
\* props.xml comes with no SubTexture or with one that has no name
Documents(src) ==
    CASE src = "player.xml" ->
            { <<Sub(Chars(Idle, <<"1", "0">>)), Sub(Chars(Idle, <<"2">>)),
                Sub(Chars(SingUP, <<"1">>))>> }
      [] src = "opponent.xml" -> { <<Sub(Chars(SingUP, <<"1">>))>> }
      [] src = "props.xml" -> { <<>>, <<Sub(Null)>> }

\* the entities a scene configuration is made of; xml "" is no xml, and
\* name "" and layer 0 are also what a missing name and a missing layer come
\* to (obj.name || "object", obj.layer || 0)
DemoEntities ==
    { [name |-> "player", layer |-> 1, xml |-> "player.xml",
       x |-> Num(100), y |-> Num(50), scale |-> Num(2)],
      [name |-> "opponent", layer |-> 1, xml |-> "opponent.xml",
       x |-> Num(10), y |-> Num(50), scale |-> Num(1)],
      [name |-> "lamp-light", layer |-> 2, xml |-> "",
       x |-> Num(0), y |-> Num(0), scale |-> Num(1)],
      [name |-> "", layer |-> 0, xml |-> "props.xml",
       x |-> Num(0), y |-> Num(0), scale |-> Num(1)] }

Demos == UNION { [1..n -> DemoEntities] : n \in 0..MaxEntities }

\* image.width, image.height of a loaded image
ImageWidth == 64
ImageHeight == 32

\* { idle: [{ x: 0, y: 0, w: image.width, h: image.height, ox: 0, oy: 0 }] }
WholeImage ==
    << [name |-> Idle,
        frames |-> << [x |-> Num(0), y |-> Num(0), w |-> Num(ImageWidth),
                       h |-> Num(ImageHeight), ox |-> Num(0), oy |-> Num(0)] >>] >>

\* the keys updateControls reads that the model presses
KeyNames == {"w", "ArrowUp"}

\* the record loadAndPushObject pushes; t is obj._t, 0 until an effect sets
\* it; hasSprite tells whether obj.sprite is set, as it is in every record
\* pushed here
GameObject(obj, t) ==
    [name |-> IF obj.name = "" THEN "object" ELSE obj.name,
     layer |-> obj.layer,
     hasSprite |-> TRUE,
     sprite |-> NewSprite(FunkinA, t, obj.x, obj.y, obj.scale),
     effect |-> IF obj.name \in {"lamp-light", "lamp-lightend"} THEN "pulseLight" ELSE "none",
     t |-> 0]

\* an effect that also moves the sprite it fades
pulseLightMoving(obj, dt) ==
    [obj EXCEPT !.t = @ + dt * 2,
                !.sprite.opacity = Level(Rat(9, 10), Rat(1, 10), obj.t + dt * 2),
                !.sprite.anchorX = Num(1)]

\* effects.pulseLight(obj, dt): obj._t += dt * 2; opacity = 0.9 + sin(obj._t) * 0.1
pulseLight(obj, dt) ==
    [obj EXCEPT !.t = @ + dt * 2,
                !.sprite.opacity = Level(Rat(9, 10), Rat(1, 10), obj.t + dt * 2)]

\* obj.sprite.opacity = ... on an entity without a sprite: a TypeError, after
\* obj._t was set
EffectThrows(obj) == obj.effect = "pulseLight" /\ ~obj.hasSprite

\* the clip updateControls selects for the opponent (w) and the player (ArrowUp)
\* among the keys modelled: singUP while the key is held, else idle
Selected(key) == IF key \in keys THEN SingUP ELSE Idle

\* gameObjects.find(o => o.name === name): the first one, 0 for undefined
Find(objs, name) ==
    IF \E i \in 1..Len(objs) : objs[i].name = name
    THEN CHOOSE i \in 1..Len(objs) :
            objs[i].name = name /\ \A j \in 1..(i - 1) : objs[j].name # name
    ELSE 0

\* one branch of updateControls: if (sprite) sprite.setAnim(...)
Control(objs, name, key) ==
    IF Find(objs, name) = 0 \/ ~objs[Find(objs, name)].hasSprite THEN objs
    ELSE [objs EXCEPT ![Find(objs, name)].sprite = setAnim(FunkinA, @, Selected(key))]

\* updateControls(): the opponent first, then the player
updateControls(objs) == Control(Control(objs, "opponent", "w"), "player", "ArrowUp")

-----------------------------------------------------------------------------
(* loop(time) *)

\* a sort that puts an entity before the earlier ones of its layer
RECURSIVE InsertByLayerUnstable(_, _, _)
InsertByLayerUnstable(objs, i, sorted) ==
    IF sorted = <<>> THEN <<i>>
    ELSE IF objs[Head(sorted)].layer >= objs[i].layer THEN <<i>> \o sorted
    ELSE <<Head(sorted)>> \o InsertByLayerUnstable(objs, i, Tail(sorted))

\* the stable sort's insertion of entity i: before the first entity of a
\* larger layer
RECURSIVE InsertByLayer(_, _, _)
InsertByLayer(objs, i, sorted) ==
    IF sorted = <<>> THEN <<i>>
    ELSE IF objs[Head(sorted)].layer > objs[i].layer THEN <<i>> \o sorted
    ELSE <<Head(sorted)>> \o InsertByLayer(objs, i, Tail(sorted))

\* [...gameObjects].sort((a, b) => (a.layer || 0) - (b.layer || 0)), as the
\* indices into gameObjects of the sorted copy's elements
RECURSIVE SortedByLayer(_, _)
SortedByLayer(objs, n) ==
    IF n = 0 THEN <<>>
    ELSE InsertByLayer(objs, n, SortedByLayer(objs, n - 1))

Event(i, step, d) == [obj |-> i, step |-> step, out |-> [status |-> d.status, blit |-> d.blit]]

\* a loop in which an entity with an effect is not updated
RECURSIVE PassEffectOnly(_, _, _, _, _, _, _)
PassEffectOnly(order, objs, c, log, dt, vsx, vsy) ==
    IF order = <<>> THEN [objs |-> objs, ctx |-> c, log |-> log, thrown |-> FALSE]
    ELSE LET i == Head(order)
             affected == IF objs[i].effect = "pulseLight" THEN pulseLight(objs[i], dt)
                         ELSE [objs[i] EXCEPT !.sprite = update(FunkinA, @, dt)]
             d == draw(FunkinA, affected.sprite, vsx, vsy, c)
         IN  PassEffectOnly(Tail(order), [objs EXCEPT ![i] = affected], d.ctx,
                            log \o (IF objs[i].effect = "pulseLight"
                                    THEN <<Event(i, "effect", Skip)>>
                                    ELSE <<Event(i, "update", Skip)>>)
                                \o <<Event(i, "draw", d)>>,
                            dt, vsx, vsy)

\* a loop that takes up a resize to the design size after its first entity
RECURSIVE PassResizedMidTick(_, _, _, _, _, _, _)
PassResizedMidTick(order, objs, c, log, dt, vsx, vsy) ==
    IF order = <<>> THEN [objs |-> objs, ctx |-> c, log |-> log, thrown |-> FALSE]
    ELSE LET i == Head(order)
             affected == IF objs[i].effect = "pulseLight" THEN pulseLight(objs[i], dt)
                         ELSE objs[i]
             updated == [affected EXCEPT !.sprite = update(FunkinA, @, dt)]
             d == draw(FunkinA, updated.sprite, vsx, vsy, c)
         IN  PassResizedMidTick(Tail(order), [objs EXCEPT ![i] = updated], d.ctx,
                                log \o (IF objs[i].effect = "pulseLight"
                                        THEN <<Event(i, "effect", Skip)>> ELSE <<>>)
                                    \o <<Event(i, "update", Skip), Event(i, "draw", d)>>,
                                dt,
                                ScaleFor(DESIGN_WIDTH, DESIGN_WIDTH),
                                ScaleFor(DESIGN_HEIGHT, DESIGN_HEIGHT))

\* what the log records of a call that raised
Thrown == [status |-> "thrown", blit |-> NoBlit]

\* the body of for (const obj of sorted), over the rest of the sorted copy:
\* obj.effect?.(obj, dt); obj.sprite?.update(dt); obj.sprite?.draw()
\* An exception of the effect leaves the loop; ?. makes no call on an entity
\* without a sprite.
RECURSIVE Pass(_, _, _, _, _, _, _)
Pass(order, objs, c, log, dt, vsx, vsy) ==
    IF order = <<>> THEN [objs |-> objs, ctx |-> c, log |-> log, thrown |-> FALSE]
    ELSE LET i == Head(order)
         IN  IF EffectThrows(objs[i])
             THEN [objs |-> [objs EXCEPT ![i].t = @ + dt * 2], ctx |-> c,
                   log |-> Append(log, Event(i, "effect", Thrown)), thrown |-> TRUE]
             ELSE
             LET affected == IF objs[i].effect = "pulseLight" THEN pulseLight(objs[i], dt)
                             ELSE objs[i]
                 updated == IF affected.hasSprite
                            THEN [affected EXCEPT !.sprite = update(FunkinA, @, dt)]
                            ELSE affected
                 d == draw(FunkinA, updated.sprite, vsx, vsy, c)
             IN  Pass(Tail(order), [objs EXCEPT ![i] = updated],
                      IF updated.hasSprite THEN d.ctx ELSE c,
                      log \o (IF objs[i].effect = "pulseLight"
                              THEN <<Event(i, "effect", Skip)>> ELSE <<>>)
                          \o (IF updated.hasSprite
                              THEN <<Event(i, "update", Skip), Event(i, "draw", d)>>
                              ELSE <<>>),
                      dt, vsx, vsy)

-----------------------------------------------------------------------------
(* Spec: the script funkin_a, from its first line on *)

Init ==
    /\ variant = FunkinA
    /\ xml = <<>>
    /\ table = <<>>
    /\ cfg = [x |-> Num(0), y |-> Num(0), scale |-> Num(1)]
    /\ sprite = NoSprite
    /\ pc = "scene"
    /\ last = Call("none", <<>>, 0, NoSprite, Skip)
    /\ ctx = NewContext
    \* resizeCanvas() at the start of the script
    /\ \E size \in WindowSizes :
          /\ canvas = size
          /\ scaleX = resizeCanvas(size).scaleX
          /\ scaleY = resizeCanvas(size).scaleY
    /\ keys = {}
    /\ demo \in Demos
    /\ gameObjects = <<>>
    /\ lastTime = 0
    /\ tickLog = <<>>
    \* init(): with no entity to load it requests the first frame at once
    /\ loading = IF demo = <<>> THEN [idx |-> 0, phase |-> "done"]
                 ELSE [idx |-> 1, phase |-> "image"]
    /\ rafPending = IF demo = <<>> THEN 1 ELSE 0

\* window "resize": resizeCanvas()
Resize ==
    /\ \E size \in WindowSizes :
          /\ canvas' = resizeCanvas(size).canvas
          /\ scaleX' = resizeCanvas(size).scaleX
          /\ scaleY' = resizeCanvas(size).scaleY
          /\ ctx' = resizeCanvas(size).ctx
    /\ UNCHANGED <<spriteVars, keys, demo, loading, gameObjects, lastTime,
                   rafPending, tickLog>>

\* window "keydown": keys[e.key] = true
KeyDown ==
    /\ \E k \in KeyNames : keys' = keys \cup {k}
    /\ UNCHANGED <<spriteVars, scaleX, scaleY, ctx, canvas, demo, loading, gameObjects,
                   lastTime, rafPending, tickLog>>

\* window "keyup": keys[e.key] = false
KeyUp ==
    /\ \E k \in KeyNames : keys' = keys \ {k}
    /\ UNCHANGED <<spriteVars, scaleX, scaleY, ctx, canvas, demo, loading, gameObjects,
                   lastTime, rafPending, tickLog>>

\* a loadAndPushObject that requests a frame itself after every push
RegisteredStartingLoop(t) ==
    /\ gameObjects' = Append(gameObjects, GameObject(demo[loading.idx], t))
    /\ loading' = IF loading.idx < Len(demo)
                  THEN [idx |-> loading.idx + 1, phase |-> "image"]
                  ELSE [idx |-> loading.idx, phase |-> "done"]
    /\ rafPending' = 1

\* a loadAndPushObject that puts the record in front (unshift)
RegisteredInFront(t) ==
    /\ gameObjects' = <<GameObject(demo[loading.idx], t)>> \o gameObjects
    /\ IF loading.idx < Len(demo)
       THEN /\ loading' = [idx |-> loading.idx + 1, phase |-> "image"]
            /\ UNCHANGED rafPending
       ELSE /\ loading' = [idx |-> loading.idx, phase |-> "done"]
            /\ rafPending' = rafPending + 1

\* gameObjects.push(gameObj), then init() goes on: the next entity's
\* loadImage, or requestAnimationFrame(loop) after the last one
Registered(t) ==
    /\ gameObjects' = Append(gameObjects, GameObject(demo[loading.idx], t))
    /\ IF loading.idx < Len(demo)
       THEN /\ loading' = [idx |-> loading.idx + 1, phase |-> "image"]
            /\ UNCHANGED rafPending
       ELSE /\ loading' = [idx |-> loading.idx, phase |-> "done"]
            /\ rafPending' = rafPending + 1

\* img.onload: loadAndPushObject resumes after await loadImage
ImageLoaded ==
    /\ loading.phase = "image"
    /\ IF demo[loading.idx].xml # ""
       THEN /\ loading' = [loading EXCEPT !.phase = "xml"]
            /\ UNCHANGED <<gameObjects, rafPending>>
       ELSE Registered(WholeImage)
    /\ UNCHANGED <<spriteVars, scaleX, scaleY, ctx, canvas, keys, demo, lastTime, tickLog>>

\* the image fails to load: there is no onerror, the promise never settles
ImageFails ==
    /\ loading.phase = "image"
    /\ loading' = [loading EXCEPT !.phase = "stalled"]
    /\ UNCHANGED <<spriteVars, scaleX, scaleY, ctx, canvas, keys, demo, gameObjects,
                   lastTime, rafPending, tickLog>>

\* loadXML resolves: frames = parseSparrow(await loadXML(obj.xml)); when
\* parseSparrow throws, loadAndPushObject and init() reject
XmlLoaded ==
    /\ loading.phase = "xml"
    /\ \E doc \in Documents(demo[loading.idx].xml) :
          IF Throws(FunkinA, doc)
          THEN /\ loading' = [loading EXCEPT !.phase = "rejected"]
               /\ UNCHANGED <<gameObjects, rafPending>>
          ELSE Registered(parseSparrow(FunkinA, doc))
    /\ UNCHANGED <<spriteVars, scaleX, scaleY, ctx, canvas, keys, demo, lastTime, tickLog>>

\* a loadAndPushObject that pushes the record, with the whole-image frames,
\* before it awaits the descriptor
XmlFailsAfterPush ==
    /\ loading.phase = "xml"
    /\ loading' = [loading EXCEPT !.phase = "rejected"]
    /\ gameObjects' = Append(gameObjects, GameObject(demo[loading.idx], WholeImage))
    /\ UNCHANGED <<spriteVars, scaleX, scaleY, ctx, canvas, keys, demo,
                   lastTime, rafPending, tickLog>>

\* fetch rejects: loadAndPushObject and init() reject, nothing more is loaded
XmlFails ==
    /\ loading.phase = "xml"
    /\ loading' = [loading EXCEPT !.phase = "rejected"]
    /\ UNCHANGED <<spriteVars, scaleX, scaleY, ctx, canvas, keys, demo, gameObjects,
                   lastTime, rafPending, tickLog>>

\* the frame callback loop(time): requestAnimationFrame(loop) is its last
\* statement, not reached when the for loop raised
Loop ==
    /\ rafPending > 0
    /\ \E time \in (lastTime + 1)..MaxTime :
          \E controlled \in {updateControls(gameObjects)} :
          \E pass \in {Pass(SortedByLayer(controlled, Len(controlled)), controlled,
                            ctx, <<>>, time - lastTime, scaleX, scaleY)} :
              /\ lastTime' = time
              /\ gameObjects' = pass.objs
              /\ ctx' = pass.ctx
              /\ tickLog' = pass.log
              /\ rafPending' = IF pass.thrown THEN rafPending - 1
                               ELSE rafPending - 1 + 1
    /\ UNCHANGED <<spriteVars, scaleX, scaleY, canvas, keys, demo, loading>>

Next ==
    \/ Resize
    \/ KeyDown
    \/ KeyUp
    \/ ImageLoaded
    \/ ImageFails
    \/ XmlLoaded
    \/ XmlFails
    \/ Loop

Spec == Init /\ [][Next]_vars

\* ---------------------------------------------------------------------
\* loop(time) over any gameObjects array: the records loadAndPushObject
\* builds, and records with no sprite, which the loop provides for with
\* obj.sprite?. and which any script of the page can push, gameObjects being
\* a top-level let of a classic script
\* ---------------------------------------------------------------------

\* a record whose sprite is not set
Inert(o) == [o EXCEPT !.hasSprite = FALSE, !.sprite = NoSprite]

Configured(name) == CHOOSE e \in DemoEntities : e.name = name

TickEntities ==
    { GameObject(Configured("lamp-light"), WholeImage),
      GameObject(Configured("player"), WholeImage),
      Inert(GameObject(Configured("lamp-light"), WholeImage)),
      Inert(GameObject(Configured(""), WholeImage)) }

TickInit ==
    /\ variant = FunkinA
    /\ xml = <<>>
    /\ table = <<>>
    /\ cfg = [x |-> Num(0), y |-> Num(0), scale |-> Num(1)]
    /\ sprite = NoSprite
    /\ pc = "scene"
    /\ last = Call("none", <<>>, 0, NoSprite, Skip)
    /\ ctx = NewContext
    /\ \E size \in WindowSizes :
          /\ canvas = size
          /\ scaleX = resizeCanvas(size).scaleX
          /\ scaleY = resizeCanvas(size).scaleY
    /\ keys = {}
    /\ demo = <<>>
    /\ gameObjects \in UNION { [1..n -> TickEntities] : n \in 0..MaxEntities }
    /\ lastTime = 0
    /\ tickLog = <<>>
    /\ loading = [idx |-> 0, phase |-> "done"]
    /\ rafPending = 1

TickNext == Loop

TickSpec == TickInit /\ [][TickNext]_vars

-----------------------------------------------------------------------------
(* Claims about Sprite.update, checked under SpriteSpec *)

CurrentClip == Clip(sprite.frames, sprite.anim)

HasCurrentClip == HasClip(sprite.frames, sprite.anim)

\* C1: update is time-additive: from every reachable sprite, update(a) then
\* update(b) leaves the same (anim, frameIndex, frameTimer) as update(a + b),
\* for all elapsed times a, b >= 0.
C1_TimeAdditive ==
    pc = "live" /\ variant \in {FunkinA, Part001} =>
        \A a, b \in Dts :
            AnimState(update(variant, update(variant, sprite, a), b))
                = AnimState(update(variant, sprite, a + b))

\* C2: frame advance is floor-exact: an update(dt) that starts from
\* frameTimer = 0 advances frameIndex by floor(dt * fps) steps modulo the
\* clip length (update(0.25) at fps = 12 advances 3 frames).
C2_FloorExact ==
    (/\ variant = FunkinA
     /\ last.op = "update"
     /\ last.pre.frameTimer = 0
     /\ HasCurrentClip) =>
        sprite.frameIndex =
            (last.pre.frameIndex + (last.dt \div FramePeriod(sprite.fps))) % Len(CurrentClip)

\* C3 as stated: in every state of a sprite built from a parsed clip table,
\* 0 <= frameIndex < length of the current clip frames[anim].
C3_FrameIndexInClip ==
    pc = "live" /\ variant \in {FunkinA, Part002} =>
        /\ HasCurrentClip
        /\ sprite.frameIndex \in 0..(Len(CurrentClip) - 1)

\* C3 as amended: whenever the sprite's current clip is a clip of its table,
\* 0 <= frameIndex < length of that clip.
C3_FrameIndexInCurrentClip ==
    pc = "live" /\ HasCurrentClip => sprite.frameIndex \in 0..(Len(CurrentClip) - 1)

\* an update has just wrapped from the last frame of a clip of three frames
\* back to frame 0
C3_Witness ==
    /\ pc = "live"
    /\ last.op = "update"
    /\ HasCurrentClip
    /\ Len(CurrentClip) = 3
    /\ last.pre.frameIndex = 2
    /\ sprite.frameIndex = 0

\* C4: right after every update(dt), dt >= 0, frameTimer is in [0, 1/fps),
\* and the time beyond a frame period is folded into frame advances, not
\* dropped: the frames advanced and the timer left account for all of
\* frameTimer + dt.
C4_TimerFolded ==
    last.op = "update" /\ variant \in {FunkinA, Part001, Part002} =>
        /\ sprite.frameTimer >= 0
        /\ sprite.frameTimer < FramePeriod(sprite.fps)
        /\ HasCurrentClip =>
              LET total == last.pre.frameTimer + last.dt
              IN  /\ sprite.frameTimer = total % FramePeriod(sprite.fps)
                  /\ sprite.frameIndex =
                        (last.pre.frameIndex + (total \div FramePeriod(sprite.fps)))
                            % Len(CurrentClip)

-----------------------------------------------------------------------------
(* Claims about Sprite.setAnim, checked under SpriteSpec *)

C6_SameClipNoOp ==
    last.op = "setAnim" /\ last.name = last.pre.anim =>
        AnimState(sprite) = last.pre

\* the current clip is selected again in the middle of the clip and of a
\* frame period
C6_Witness ==
    /\ last.op = "setAnim"
    /\ last.name = last.pre.anim
    /\ HasClip(sprite.frames, last.name)
    /\ last.pre.frameIndex > 0
    /\ last.pre.frameTimer > 0

\* C7: setAnim(name) with a name in the clip table that is not the current
\* clip makes it the current clip and sets frameIndex = 0 and frameTimer = 0.
C7_SwitchResets ==
    (/\ last.op = "setAnim"
     /\ HasClip(sprite.frames, last.name)
     /\ last.name # last.pre.anim) =>
        /\ sprite.anim = last.name
        /\ sprite.frameIndex = 0
        /\ sprite.frameTimer = 0

\* a switch to another clip from the middle of a clip and of a frame period
C7_Witness ==
    /\ last.op = "setAnim"
    /\ HasClip(sprite.frames, last.name)
    /\ last.name # last.pre.anim
    /\ last.pre.frameIndex > 0
    /\ last.pre.frameTimer > 0
    /\ sprite.anim = last.name

-----------------------------------------------------------------------------
(* Claims about parseSparrow, checked under ParseSpec *)

\* the SubTexture a frame rectangle was read from (x tells them apart)
SourceOf(rect) == CHOOSE sub \in SubTextures : AttrNumber(sub.x) = rect.x

\* C8: parseSparrow returns a clip table in which every clip has at least one
\* frame and the frames of each clip are in ascending numeric order of the
\* trailing digit suffix of their names, whatever the order of the entries.
C8_FramesInSuffixOrder ==
    pc = "parsed" /\ variant \in {FunkinA, FunkinB, Part000} =>
        \A c \in 1..Len(table) :
            /\ Len(table[c].frames) >= 1
            /\ \A i, j \in 1..Len(table[c].frames) :
                  (/\ i < j
                   /\ Matches(SourceOf(table[c].frames[i]).name)
                   /\ Matches(SourceOf(table[c].frames[j]).name)) =>
                      MatchIndex(SourceOf(table[c].frames[i]).name)
                          <= MatchIndex(SourceOf(table[c].frames[j]).name)

-----------------------------------------------------------------------------
(* Claims about Sprite.draw, checked under SpriteSpec *)

\* the frame the last draw() blitted
DrawnFrame == Clip(sprite.frames, last.pre.anim)[last.pre.frameIndex + 1]

\* C10: the draw position is anchor * viewportScale + offset * scale *
\* viewportScale and the draw size is frameSize * scale * viewportScale, on
\* each axis.
C10_DrawTransform ==
    (/\ variant \in {FunkinA, FunkinB}
     /\ last.op = "draw"
     /\ last.out.status = "drawn") =>
        /\ last.out.blit.dx =
              RAdd(RMul(sprite.anchorX, scaleX),
                   RMul(RMul(DrawnFrame.ox, sprite.scale), scaleX))
        /\ last.out.blit.dy =
              RAdd(RMul(sprite.anchorY, scaleY),
                   RMul(RMul(DrawnFrame.oy, sprite.scale), scaleY))
        /\ last.out.blit.dw = RMul(RMul(DrawnFrame.w, sprite.scale), scaleX)
        /\ last.out.blit.dh = RMul(RMul(DrawnFrame.h, sprite.scale), scaleY)

-----------------------------------------------------------------------------
(* Claims about the frame loop, checked under Spec *)

\* the entities the last tick updated, and those it drew, in order
RECURSIVE Stepped(_, _)
Stepped(log, step) ==
    IF log = <<>> THEN <<>>
    ELSE (IF Head(log).step = step THEN <<Head(log).obj>> ELSE <<>>)
             \o Stepped(Tail(log), step)

\* C9: every tick updates and draws the entities in ascending layer order,
\* entities of equal layer in their insertion order in gameObjects, and the
\* sort leaves the stored order of gameObjects as it was (the order of
\* registration).
C9_LayerOrder ==
    /\ \A i \in 1..Len(gameObjects) :
          /\ gameObjects[i].layer = demo[i].layer
          /\ gameObjects[i].sprite.anchorX = demo[i].x
    /\ tickLog # <<>> =>
          LET drawn == Stepped(tickLog, "draw")
          IN  /\ Stepped(tickLog, "update") = drawn
              /\ Len(drawn) = Len(gameObjects)
              /\ \A i \in 1..Len(gameObjects) : \E k \in 1..Len(drawn) : drawn[k] = i
              /\ \A k, m \in 1..Len(drawn) :
                    k < m =>
                       \/ gameObjects[drawn[k]].layer < gameObjects[drawn[m]].layer
                       \/ /\ gameObjects[drawn[k]].layer = gameObjects[drawn[m]].layer
                          /\ drawn[k] < drawn[m]

\* a tick over entities registered with layers 1, 0, 1: the second is drawn
\* first, then the first, then the third
C9_Witness ==
    /\ Len(gameObjects) = 3
    /\ [i \in 1..3 |-> gameObjects[i].layer] = <<1, 0, 1>>
    /\ Stepped(tickLog, "draw") = <<2, 1, 3>>

-----------------------------------------------------------------------------
(* Claims about the scene, checked under Spec *)

\* C11: a sprite's anchor (anchorX, anchorY) is the value given at
\* construction in every reachable state: no setAnim, update, draw, effect or
\* resize changes it.
C11_AnchorFixed ==
    \A i \in 1..Len(gameObjects) :
        /\ gameObjects[i].sprite.anchorX = demo[i].x
        /\ gameObjects[i].sprite.anchorY = demo[i].y

\* after a tick in which an effect ran, with a sprite switched to singUP by a
\* held key, a sprite advanced within its clip, all at a non-zero anchor
C11_Witness ==
    /\ \E e \in 1..Len(tickLog) : tickLog[e].step = "effect"
    /\ \E i \in 1..Len(gameObjects) :
          /\ gameObjects[i].sprite.anim = SingUP
          /\ gameObjects[i].sprite.anchorX = Num(100)
    /\ \E i \in 1..Len(gameObjects) :
          /\ gameObjects[i].sprite.frameIndex > 0
          /\ gameObjects[i].sprite.anchorX = Num(100)

-----------------------------------------------------------------------------
(* Claims about resizeCanvas, checked under SpriteSpec *)

\* C12: resize is idempotent: handling a resize with the physical width and
\* height of the resize handled before leaves (scaleX, scaleY) as they were,
\* equal to (physicalWidth / 1280, physicalHeight / 720), and a draw of the
\* unchanged sprite after it hands drawImage the coordinates of the draw
\* before it.
C12_ResizeIdempotent ==
    /\ [](Scaled(variant) =>
              /\ scaleX = Rat(canvas[1], DESIGN_WIDTH)
              /\ scaleY = Rat(canvas[2], DESIGN_HEIGHT))
    /\ [][(last'.op = "resize" /\ last'.out.status = "same") =>
              (scaleX' = scaleX /\ scaleY' = scaleY)]_vars
    /\ [][(/\ last.op = "resize"
           /\ last.out.status = "same"
           /\ last.out.blit # NoBlit
           /\ last'.op = "draw") =>
              last'.out.blit = last.out.blit]_vars

\* a draw under a window of 640 x 1080 followed by a resize with the same
\* 640 x 1080: the scale stands and the next draw repeats the blit
C12_Witness ==
    /\ variant = FunkinA
    /\ last.op = "resize"
    /\ last.out.status = "same"
    /\ last.out.blit # NoBlit
    /\ canvas = <<640, 1080>>
    /\ scaleX = Rat(1, 2)
    /\ draw(variant, sprite, scaleX, scaleY, ctx).blit = last.out.blit

-----------------------------------------------------------------------------
(* Claims about what parseSparrow accepts and stores, checked under ParseSpec *)

\* an entry with a name and numeric x, y, width and height attributes
WellFormed(sub) ==
    /\ sub.name # Null
    /\ \A a \in {sub.x, sub.y, sub.width, sub.height} : a.kind = "num"

\* C13: parseSparrow fails, and returns no clip table, whenever an entry
\* lacks one of the attributes x, y, width, height, name or has a non-numeric
\* value in one of the numeric ones; no stored frame is built from a missing
\* or non-numeric attribute.
C13_MalformedRejected ==
    variant = FunkinA =>
        /\ pc = "parsed" => \A i \in 1..Len(xml) : WellFormed(xml[i])
        /\ \A c \in 1..Len(table) : \A k \in 1..Len(table[c].frames) :
              WellFormed(SourceOf(table[c].frames[k]))

-----------------------------------------------------------------------------
(* Claims about a sprite without a current clip, checked under SpriteSpec *)

\* C14: when the sprite's current clip is unavailable (absent from the table,
\* table empty, clip never set), update and draw skip without raising, and
\* leave the sprite as it was, so that the tick goes on to the remaining
\* entities and to the request of the next frame.
C14_MissingClipSkipped ==
    (/\ variant \in {FunkinA, Part002}
     /\ last.op \in {"update", "draw"}
     /\ ~HasClip(sprite.frames, last.pre.anim)) =>
        /\ last.out.status # "thrown"
        /\ AnimState(sprite) = last.pre

\* C15: for every descriptor entry, the stored pivot offset is the negation
\* of the entry's trim offset: ox = -frameX and oy = -frameY, an absent
\* frameX or frameY counting as 0.
C15_OffsetNegated ==
    pc = "parsed" /\ variant \in {FunkinA, Part001} =>
        \A c \in 1..Len(table) : \A k \in 1..Len(table[c].frames) :
            LET f == table[c].frames[k]
                fx == SourceOf(f).frameX
                fy == SourceOf(f).frameY
            IN  /\ f.ox = (IF fx.kind = "absent" THEN Num(0) ELSE <<-fx.num[1], fx.num[2]>>)
                /\ f.oy = (IF fy.kind = "absent" THEN Num(0) ELSE <<-fy.num[1], fy.num[2]>>)

\* the number of frames of a clip table
RECURSIVE FrameCount(_)
FrameCount(t) == IF t = <<>> THEN 0 ELSE Len(Head(t).frames) + FrameCount(Tail(t))

\* C16: an entry whose name has no trailing decimal digits is rejected with
\* an error or kept in the clip table in encounter order: a successful parse
\* leaves no entry of the descriptor out of its result.
C16_NoEntryDropped ==
    pc = "parsed" /\ variant = FunkinA =>
        /\ FrameCount(table) = Len(xml)
        /\ \A i \in 1..Len(xml) :
              \E c \in 1..Len(table) : \E k \in 1..Len(table[c].frames) :
                  table[c].frames[k].x = AttrNumber(xml[i].x)

-----------------------------------------------------------------------------
(* Claims about the steps of a tick, checked under Spec *)

\* the places in the last tick's log of one step of entity i
LogAt(i, step) ==
    {k \in 1..Len(tickLog) : tickLog[k].obj = i /\ tickLog[k].step = step}

\* C17: within a tick, for every entity the effect runs before the sprite's
\* update and the update before its draw, and the update runs in every tick
\* whether or not the entity has an effect: the frame timer of an entity
\* with an effect advances by the elapsed time like any other.
C17_EffectUpdateDraw ==
    /\ [](tickLog # <<>> =>
              \A i \in 1..Len(gameObjects) :
                  /\ Cardinality(LogAt(i, "update")) = 1
                  /\ Cardinality(LogAt(i, "draw")) = 1
                  /\ \A u \in LogAt(i, "update") : \A d \in LogAt(i, "draw") : u < d
                  /\ gameObjects[i].effect = "pulseLight" =>
                        /\ Cardinality(LogAt(i, "effect")) = 1
                        /\ \A e \in LogAt(i, "effect") : \A u \in LogAt(i, "update") : e < u
                  /\ gameObjects[i].effect = "none" => LogAt(i, "effect") = {})
    /\ [][lastTime' # lastTime =>
              \A i \in 1..Len(gameObjects) :
                  LET timer == gameObjects[i].sprite.frameTimer + (lastTime' - lastTime)
                  IN  gameObjects[i].effect = "pulseLight" =>
                          gameObjects'[i].sprite.frameTimer =
                              IF timer >= FramePeriod(DefaultFps) THEN 0 ELSE timer]_vars

\* a tick of less than a frame period over an entity with an effect and one
\* without: the effect has set the opacity and the timer has advanced
C17_Witness ==
    /\ \E i, j \in 1..Len(gameObjects) :
          /\ gameObjects[i].effect = "pulseLight"
          /\ gameObjects[i].sprite.opacity # Opaque
          /\ gameObjects[i].sprite.frameTimer > 0
          /\ gameObjects[j].effect = "none"
          /\ LogAt(i, "effect") # {}
          /\ LogAt(j, "update") # {}

\* a context some earlier drawing left translucent
Translucent == [globalAlpha |-> Level(Rat(1, 2), Num(0), 0), stack |-> <<>>]

\* C18: draw applies the sprite's opacity as the context's global alpha for
\* its own blit only: the global alpha after draw returns is the one before
\* draw was called, on the path that blits and on the path that skips, so
\* every blit is made under the opacity of its own sprite.
C18_AlphaRestored ==
    /\ ctx = NewContext
    /\ \A i \in 1..Len(gameObjects) : \A c \in {ctx, Translucent} :
          draw(FunkinA, gameObjects[i].sprite, scaleX, scaleY, c).ctx = c
    /\ \A k \in 1..Len(tickLog) :
          tickLog[k].step = "draw" /\ tickLog[k].out.status = "drawn" =>
              tickLog[k].out.blit.alpha = gameObjects[tickLog[k].obj].sprite.opacity

\* a tick that skipped the draw of an entity without clips, blitted an
\* opaque sprite and blitted the pulsing light under its own opacity
C18_Witness ==
    /\ \E k \in 1..Len(tickLog) :
          tickLog[k].step = "draw" /\ tickLog[k].out.status = "skipped"
    /\ \E k \in 1..Len(tickLog) :
          /\ tickLog[k].step = "draw"
          /\ tickLog[k].out.status = "drawn"
          /\ tickLog[k].out.blit.alpha = Opaque
    /\ \E k \in 1..Len(tickLog) :
          /\ tickLog[k].step = "draw"
          /\ tickLog[k].out.status = "drawn"
          /\ tickLog[k].out.blit.alpha # Opaque
    /\ ctx.globalAlpha = Opaque

\* the draws of the last tick that blitted
Blits == {k \in 1..Len(tickLog) :
            tickLog[k].step = "draw" /\ tickLog[k].out.status = "drawn"}

\* the blit of draw event k has the size its frame and sprite give under the
\* viewport scale of a window of the given size
DrawnUnder(k, size) ==
    LET b == tickLog[k].out.blit
        s == gameObjects[tickLog[k].obj].sprite
    IN  /\ b.dw = RMul(RMul(b.sw, s.scale), Rat(size[1], DESIGN_WIDTH))
        /\ b.dh = RMul(RMul(b.sh, s.scale), Rat(size[2], DESIGN_HEIGHT))

\* C19: under every interleaving of resizes and frame callbacks, all the
\* draws of one tick read the same (scaleX, scaleY): the scale is written by
\* the resize handler alone, in a step of its own that is no part of a tick.
C19_OneScalePerTick ==
    /\ [](\E size \in WindowSizes : \A k \in Blits : DrawnUnder(k, size))
    /\ [][(scaleX' # scaleX \/ scaleY' # scaleY) =>
              /\ canvas' # canvas
              /\ scaleX' = Rat(canvas'[1], DESIGN_WIDTH)
              /\ scaleY' = Rat(canvas'[2], DESIGN_HEIGHT)
              /\ tickLog' = tickLog
              /\ gameObjects' = gameObjects
              /\ lastTime' = lastTime]_vars

\* a resize to 1280 x 720 right after a tick that drew two entities in a
\* window of 640 x 1080: both were drawn under (1/2, 3/2)
C19_Witness ==
    /\ canvas = <<1280, 720>>
    /\ \E k, m \in Blits :
          /\ tickLog[k].obj # tickLog[m].obj
          /\ DrawnUnder(k, <<640, 1080>>)
          /\ DrawnUnder(m, <<640, 1080>>)

-----------------------------------------------------------------------------
(* Claims about registration, checked under Spec *)

\* the entities of the configuration whose loadAndPushObject has returned
Loaded == IF loading.phase = "done" THEN Len(demo) ELSE loading.idx - 1

\* C20: registration is all-or-nothing: gameObjects holds one record for
\* each entity loaded and none for the entity whose image or descriptor
\* failed to load or to parse; every record has a name, a layer and a sprite
\* constructed on its clip table, parsed from the descriptor when the entity
\* has one.
C20_AllOrNothing ==
    /\ Len(gameObjects) = Loaded
    /\ \A i \in 1..Len(gameObjects) :
          LET obj == gameObjects[i]
          IN  /\ obj.name = (IF demo[i].name = "" THEN "object" ELSE demo[i].name)
              /\ obj.layer = demo[i].layer
              /\ obj.sprite.scale = demo[i].scale
              /\ obj.sprite.fps = DefaultFps
              /\ IF demo[i].xml = ""
                 THEN obj.sprite.frames = WholeImage
                 ELSE \E doc \in Documents(demo[i].xml) :
                         /\ \A k \in 1..Len(doc) : doc[k].name # Null
                         /\ FrameCount(obj.sprite.frames) = Len(doc)
                         /\ obj.sprite.frames # WholeImage
              /\ obj.sprite.frames # <<>> => HasClip(obj.sprite.frames, obj.sprite.anim)

\* the descriptor of the second entity failed after the first was
\* registered: one record, none for the second
C20_Witness ==
    /\ loading = [idx |-> 2, phase |-> "rejected"]
    /\ demo[2].xml = "props.xml"
    /\ Len(gameObjects) = 1
    /\ gameObjects[1].name = "player"


\* ---------------------------------------------------------------------
\* C21
\* ---------------------------------------------------------------------

C22_EffectOwnOpacityOnly ==
    /\ [](\A i \in 1..Len(gameObjects) : \A dt \in 1..MaxTime :
              LET obj == gameObjects[i]
                  after == pulseLight(obj, dt)
              IN  obj.effect = "pulseLight" =>
                      [after EXCEPT !.t = obj.t, !.sprite.opacity = obj.sprite.opacity] = obj)
    /\ [][lastTime' # lastTime =>
              /\ Len(gameObjects') = Len(gameObjects)
              /\ \A i \in 1..Len(gameObjects) :
                    LET dt == lastTime' - lastTime
                        obj == gameObjects[i]
                    IN  IF obj.effect = "pulseLight"
                        THEN gameObjects'[i].sprite =
                                 update(FunkinA,
                                        [obj.sprite EXCEPT
                                            !.opacity = gameObjects'[i].sprite.opacity],
                                        dt)
                        ELSE /\ gameObjects'[i].sprite =
                                    update(FunkinA, updateControls(gameObjects)[i].sprite, dt)
                             /\ gameObjects'[i].sprite.opacity = obj.sprite.opacity]_vars

\* two ticks over a lamp between two other entities: the lamp's opacity is
\* at its second level, the others are opaque and all anchors are where the
\* configuration put them
C22_Witness ==
    /\ Len(gameObjects) = 3
    /\ gameObjects[2].effect = "pulseLight"
    /\ gameObjects[2].t > 2
    /\ gameObjects[2].sprite.opacity = Level(Rat(9, 10), Rat(1, 10), gameObjects[2].t)
    /\ gameObjects[2].sprite.anchorX = demo[2].x
    /\ gameObjects[1].name = "player" /\ gameObjects[1].sprite.opacity = Opaque
    /\ gameObjects[3].name = "object" /\ gameObjects[3].sprite.opacity = Opaque
    /\ LogAt(2, "effect") # {}


\* ---------------------------------------------------------------------
\* C23
\* ---------------------------------------------------------------------

\* C23: the frame loop starts only after every configured entity has loaded
\* and been registered: whenever a frame callback is pending or a tick has
\* run, init() is through its loads and gameObjects holds one record per
\* configured entity; and at most one frame callback is pending at any time.
C23_LoopAfterLoading ==
    /\ rafPending <= 1
    /\ (rafPending > 0 \/ lastTime > 0 \/ tickLog # <<>>) =>
           /\ loading.phase = "done"
           /\ Len(gameObjects) = Len(demo)

\* the second tick over a scene of three entities, the next frame requested
C23_Witness ==
    /\ Len(demo) = 3
    /\ Len(gameObjects) = 3
    /\ lastTime > 1
    /\ Len(tickLog) >= 6
    /\ rafPending = 1


\* ---------------------------------------------------------------------
\* C24
\* ---------------------------------------------------------------------

\* the configured name as the registered record carries it
RegisteredName(e) == IF e.name = "" THEN "object" ELSE e.name

\* C24: entities are registered in configuration order whenever their
\* images and descriptors arrive: one load is in flight at a time, the one
\* of the entity after the last registered; a registration appends the
\* record of that entity and leaves the records before it in place; and in
\* a tick, of two entities of equal layer the one configured first is drawn
\* first.
C24_ConfigurationOrder ==
    /\ [](/\ loading.phase \in {"image", "xml"} => loading.idx = Len(gameObjects) + 1
          /\ \A i \in 1..Len(gameObjects) :
                gameObjects[i].name = RegisteredName(demo[i])
          /\ \A i, j \in 1..Len(gameObjects) :
                (i < j /\ tickLog # <<>> /\ demo[i].layer = demo[j].layer) =>
                    \A a \in LogAt(i, "draw") : \A b \in LogAt(j, "draw") : a < b)
    /\ [][Len(gameObjects') # Len(gameObjects) =>
              /\ Len(gameObjects') = Len(gameObjects) + 1
              /\ SubSeq(gameObjects', 1, Len(gameObjects)) = gameObjects
              /\ gameObjects'[Len(gameObjects')].name =
                     RegisteredName(demo[Len(gameObjects) + 1])
              /\ gameObjects'[Len(gameObjects')].sprite.anchorX =
                     demo[Len(gameObjects) + 1].x]_vars

\* the opponent configured before the lamp and the player: registered in
\* that order, and the tick draws the opponent, the player, then the lamp
C24_Witness ==
    /\ Len(demo) = 3
    /\ [i \in 1..3 |-> demo[i].name] = <<"opponent", "lamp-light", "player">>
    /\ [i \in 1..Len(gameObjects) |-> gameObjects[i].name] =
           <<"opponent", "lamp-light", "player">>
    /\ Stepped(tickLog, "draw") = <<1, 3, 2>>

====
